---- MODULE Spec2Model ----
(***************************************************************************)
(* A model of the PTAR single-file container store (package storage).      *)
(*                                                                         *)
(* One container path is modelled.  `disk` is the file at that path, byte  *)
(* for byte: the 8-byte magic, the 4-byte little-endian version, the       *)
(* config, packfile and state sections, and the 48-byte trailer of six     *)
(* little-endian int64.  `store` holds the Store handles (the struct of    *)
(* the source, with the os.File behind s.fp reduced to its open/closed     *)
(* state, its access mode and its cursor).  `last` records the most recent *)
(* call, its arguments and what it returned; a reader returned by Get is   *)
(* recorded by the bytes it yields when read to its end.  `log` is the     *)
(* history of the calls that wrote to the container, `life` each handle's  *)
(* place in the lifecycle (Unopened; Writing after a successful Create;    *)
(* Reading after a successful Open; Failed after a failed Create or Open;  *)
(* Closed after a successful Close), and `nput` counts the calls of Put    *)
(* that reached the write path.  `readers` are the readers returned by Get *)
(* that are read step by step (io.SectionReader: base, limit and offset).   *)
(*                                                                         *)
(* Not modelled: I/O errors of a healthy file system or network, and the   *)
(* host/root strings of the handle.  A call of a method on the nil s.fp    *)
(* panics; the process then stops (no action is taken after a panic).      *)
(***************************************************************************)
EXTENDS Integers, Sequences, FiniteSets, TLC

VARIABLES disk, store, last, nput, log, life, readers

vars == <<disk, store, last, nput, log, life, readers>>

(***************************************************************************)
(* Bounds of the model.                                                    *)
(***************************************************************************)
\* config byte strings given to Create have 0..MaxConfigLen bytes
MaxConfigLen == 1
\* byte strings given to Put have 0..MaxBlobLen bytes
MaxBlobLen == 1
\* at most MaxPuts calls of Put reach the write path
MaxPuts == 1
\* in the write protocol followed by a read (SpecRoundTrip), the config, the
\* packfile and the state have 0..MaxSectionLen bytes
MaxSectionLen == 3
\* a Range given to Get has Offset and Length in 0..MaxRange
MaxRange == 2

(***************************************************************************)
(* Program constants.                                                      *)
(***************************************************************************)
\* s.configOffset = 12: the config follows the 8-byte magic and the version
HeaderLength == 12
\* fp.Seek(-48, io.SeekEnd): six int64
TrailerLength == 48
\* s.configLength > 32*1024
MaxConfigurationLength == 32768
\* uint32(versioning.FromString("1.0.0")): major<<16 | minor<<8 | patch
Version100 == 65536
\* decoded int64 values beyond this magnitude are kept at it (see DecodeInt64)
Huge == 536870912

\* the handles: NewStore was called once for each
Handles == {"h1", "h2"}

Protos == {"ptar", "ptar+http"}

ModeRead == "Read"
ModeWrite == "Write"

StorageResources == {"Config", "Packfile", "State", "Lock"}

stateMAC == <<15, 14, 13, 12, 11, 10, 9, 8, 7, 6, 5, 4, 3, 2, 1, 0>>
packfileMAC == <<0, 1, 2, 3, 4, 5, 6, 7, 8, 9, 10, 11, 12, 13, 14, 15>>

MACs == {stateMAC, packfileMAC}

\* "_PLATAR_"
Magic == <<95, 80, 76, 65, 84, 65, 82, 95>>

(***************************************************************************)
(* Byte strings.                                                           *)
(***************************************************************************)
Min(a, b) == IF a <= b THEN a ELSE b
Max(a, b) == IF a >= b THEN a ELSE b

\* the n bytes b, b+1, ..., b+n-1
Blob(b, n) == [i \in 1..n |-> b + i - 1]

\* what callers pass to Create
Configs == {Blob(99, n) : n \in 0..MaxConfigLen}
\* what the readers passed to Put hold
Payloads == {Blob(80, n) : n \in 0..MaxBlobLen}

\* the sections written in SpecRoundTrip
SectionConfigs == {Blob(99, n) : n \in 0..MaxSectionLen}
SectionPayloads == {Blob(80, n) : n \in 0..MaxSectionLen}

NoRange == [has |-> FALSE, Offset |-> 0, Length |-> 0]
Ranges == {NoRange} \cup
          {[has |-> TRUE, Offset |-> o, Length |-> l] : o \in 0..MaxRange, l \in 0..MaxRange}

(***************************************************************************)
(* encoding/binary, little endian.                                         *)
(***************************************************************************)
Pow256(i) == CASE i = 0 -> 1 [] i = 1 -> 256 [] i = 2 -> 65536 [] OTHER -> 16777216

\* binary.LittleEndian.PutUint32
PutUint32(v) == [i \in 1..4 |-> (v \div Pow256(i - 1)) % 256]

\* binary.Write(w, binary.LittleEndian, int64): two's complement, 8 bytes
EncodeInt64(v) ==
    IF v >= 0
    THEN [i \in 1..8 |-> IF i <= 4 THEN (v \div Pow256(i - 1)) % 256 ELSE 0]
    ELSE LET u == (v + 2147483647) + 1     \* v + 2^31
         IN  [i \in 1..8 |->
                 IF i <= 3 THEN (u \div Pow256(i - 1)) % 256
                 ELSE IF i = 4 THEN (u \div 16777216) + 128
                 ELSE 255]

Clamp(v) == IF v > Huge THEN Huge ELSE IF v < -Huge THEN -Huge ELSE v

\* binary.Read(r, binary.LittleEndian, &int64).  A value whose magnitude
\* exceeds Huge is kept at +-Huge: every test the program makes on it
\* (against 0, against 32768, against a file length) comes out the same.
DecodeInt64(b) ==
    LET lo == b[1] + 256 * b[2] + 65536 * b[3] + 16777216 * (b[4] % 128)
        hiZero == \A i \in 5..8 : b[i] = 0
        hiOnes == \A i \in 5..8 : b[i] = 255
    IN  IF hiZero /\ b[4] < 128 THEN Clamp(lo)
        ELSE IF hiOnes /\ b[4] >= 128 THEN Clamp((lo - 2147483647) - 1)
        ELSE IF b[8] >= 128 THEN -Huge ELSE Huge

(***************************************************************************)
(* The file behind s.fp.                                                   *)
(***************************************************************************)
NoFile == [exists |-> FALSE, bytes |-> <<>>]

File(b) == [exists |-> TRUE, bytes |-> b]

NilFp == [state |-> "nil", writable |-> FALSE, pos |-> 0]

\* bytes[pos, pos+n) of the file, as far as the file goes
Slice(bytes, pos, n) ==
    IF n <= 0 \/ pos >= Len(bytes) THEN <<>>
    ELSE SubSeq(bytes, pos + 1, Min(pos + n, Len(bytes)))

\* io.ReadFull(fp, buf) with len(buf) = n at cursor pos
ReadFull(bytes, pos, n) ==
    LET got == Slice(bytes, pos, n)
    IN  [ok |-> Len(got) = n, data |-> got, pos |-> pos + Len(got)]

\* fp.Write(data) at cursor pos (a gap past the end reads as zeros)
WriteAt(bytes, pos, data) ==
    LET n == Len(data)
        end == Max(Len(bytes), pos + n)
    IN  [i \in 1..end |->
            IF i > pos /\ i <= pos + n THEN data[i - pos]
            ELSE IF i <= Len(bytes) THEN bytes[i]
            ELSE 0]

(***************************************************************************)
(* The Store handle.                                                       *)
(***************************************************************************)
\* NewStore: the zero Store with its proto
NewStore(proto) ==
    [proto |-> proto, mode |-> {}, fp |-> NilFp, config |-> <<>>,
     configOffset |-> 0, configLength |-> 0,
     packfileOffset |-> 0, packfileLength |-> 0,
     stateOffset |-> 0, stateLength |-> 0]

Descriptors(s) ==
    <<s.configOffset, s.configLength, s.packfileOffset, s.packfileLength,
      s.stateOffset, s.stateLength>>

\* Create
DoCreate(s, d, c) ==
    LET s1 == [s EXCEPT !.config = c, !.mode = {ModeRead, ModeWrite}]
    IN  IF s.proto # "ptar"
        THEN [s |-> s1, disk |-> d, err |-> "UnsupportedProtocol"]
        ELSE IF d.exists
        THEN [s |-> s1, disk |-> d, err |-> "FileExists"]      \* O_CREATE|O_EXCL
        ELSE LET b1 == WriteAt(<<>>, 0, Magic)
                 b2 == WriteAt(b1, 8, PutUint32(Version100))
                 b3 == WriteAt(b2, 12, c)
             IN  [s |-> [s1 EXCEPT !.fp = [state |-> "open", writable |-> TRUE,
                                           pos |-> 12 + Len(c)],
                                   !.configOffset = HeaderLength,
                                   !.configLength = Len(c)],
                  disk |-> File(b3), err |-> ""]

\* NewHTTPReader(location): the remote resource is the same container,
\* served read-only; it is reachable iff it exists
NewHTTPReader(d) == d.exists

\* the switch on s.proto of Open: whether a backend was obtained
OpenBackend(s, d) ==
    CASE s.proto = "ptar" -> IF d.exists THEN "" ELSE "NotExist"
      [] s.proto \in {"ptar+http", "ptar+https"} ->
            IF NewHTTPReader(d) THEN "" ELSE "Unreachable"
      [] OTHER -> "UnsupportedProtocol"

\* (mutant) the magic is never compared
MagicNotCompared(magic) == TRUE

\* bytes.Equal(magic, []byte("_PLATAR_"))
MagicOK(magic) == magic = Magic

\* (mutant) the test written with < 0 for <= 0
InvalidConfigLengthZeroAllowed(n) == n < 0 \/ n > MaxConfigurationLength

\* the test Open makes on the decoded config length (true: corrupted)
InvalidConfigLength(n) == n <= 0 \/ n > MaxConfigurationLength

\* the k-th int64 (k = 0..5) of the 48 trailer bytes
TrailerField(tr, k) == DecodeInt64(SubSeq(tr, 8 * k + 1, 8 * k + 8))

\* Open.  io is the sequence of reads and seeks made on the backend.
DoOpen(s, d) ==
    LET s0 == [s EXCEPT !.mode = {ModeRead}]
        berr == OpenBackend(s, d)
        b == d.bytes
        Fp(p) == [state |-> "open", writable |-> FALSE, pos |-> p]
        Fail(st, e, io) == [s |-> st, err |-> e, out |-> <<>>, io |-> io]
        magic == ReadFull(b, 0, 8)
        ver == ReadFull(b, magic.pos, 4)
        end == Len(b) - TrailerLength
        tr == Slice(b, end, TrailerLength)
        s2 == [s0 EXCEPT !.configOffset = TrailerField(tr, 0),
                         !.configLength = TrailerField(tr, 1),
                         !.packfileOffset = TrailerField(tr, 2),
                         !.packfileLength = TrailerField(tr, 3),
                         !.stateOffset = TrailerField(tr, 4),
                         !.stateLength = TrailerField(tr, 5)]
        cfg == ReadFull(b, s2.configOffset, s2.configLength)
    IN  IF berr # "" THEN Fail(s0, berr, <<>>)
        ELSE IF ~magic.ok
        THEN Fail([s0 EXCEPT !.fp = Fp(magic.pos)], "EOF", <<"magic">>)
        ELSE IF ~MagicOK(magic.data)
        THEN Fail([s0 EXCEPT !.fp = Fp(magic.pos)], "InvalidMagic", <<"magic">>)
        ELSE IF ~ver.ok
        THEN Fail([s0 EXCEPT !.fp = Fp(ver.pos)], "EOF", <<"magic", "version">>)
        ELSE IF end < 0
        THEN Fail([s0 EXCEPT !.fp = Fp(ver.pos)], "SeekError",
                  <<"magic", "version", "seekEnd">>)
        ELSE IF s2.configOffset < 0
        THEN Fail([s2 EXCEPT !.fp = Fp(Len(b))], "SeekError",
                  <<"magic", "version", "seekEnd", "trailer", "seekConfig">>)
        ELSE IF InvalidConfigLength(s2.configLength)
        THEN Fail([s2 EXCEPT !.fp = Fp(s2.configOffset)], "InvalidConfigLength",
                  <<"magic", "version", "seekEnd", "trailer", "seekConfig">>)
        ELSE IF ~cfg.ok
        THEN Fail([s2 EXCEPT !.fp = Fp(cfg.pos)], "EOF",
                  <<"magic", "version", "seekEnd", "trailer", "seekConfig", "config">>)
        ELSE [s |-> [s2 EXCEPT !.fp = Fp(cfg.pos), !.config = cfg.data],
              err |-> "", out |-> cfg.data,
              io |-> <<"magic", "version", "seekEnd", "trailer", "seekConfig", "config">>]

\* Ping
DoPing(s, d) ==
    CASE s.proto = "ptar" -> IF d.exists THEN "" ELSE "NotExist"
      [] s.proto \in {"ptar+http", "ptar+https"} ->
            IF NewHTTPReader(d) THEN "" ELSE "Unreachable"
      [] OTHER -> "UnsupportedProtocol"

\* (mutant) the packfile length written before the packfile offset
TrailerSwapped(s) ==
    EncodeInt64(s.configOffset) \o EncodeInt64(s.configLength) \o
    EncodeInt64(s.packfileLength) \o EncodeInt64(s.packfileOffset) \o
    EncodeInt64(s.stateOffset) \o EncodeInt64(s.stateLength)

\* the six descriptors as Close writes them
Trailer(s) ==
    EncodeInt64(s.configOffset) \o EncodeInt64(s.configLength) \o
    EncodeInt64(s.packfileOffset) \o EncodeInt64(s.packfileLength) \o
    EncodeInt64(s.stateOffset) \o EncodeInt64(s.stateLength)

\* (mutant) Close that appends the trailer whatever the mode and the backend
DoCloseAnyMode(s, d) ==
    IF s.fp.state = "nil"
    THEN [s |-> s, disk |-> d, err |-> "panic"]
    ELSE IF s.fp.state = "closed"
    THEN [s |-> s, disk |-> d, err |-> "ErrClosed"]
    ELSE [s |-> [s EXCEPT !.fp.state = "closed", !.fp.pos = Len(d.bytes) + TrailerLength],
          disk |-> File(d.bytes \o Trailer(s)), err |-> ""]

\* Close.  The errors of binary.Write are dropped; s.fp.Close() decides.
DoClose(s, d) ==
    IF s.fp.state = "nil"
    THEN [s |-> s, disk |-> d, err |-> "panic"]
    ELSE LET writes == ModeWrite \in s.mode /\ s.fp.state = "open" /\ s.fp.writable
             d1 == IF writes THEN File(WriteAt(d.bytes, s.fp.pos, Trailer(s))) ELSE d
             p1 == IF writes THEN s.fp.pos + TrailerLength ELSE s.fp.pos
         IN  IF s.fp.state = "closed"
             THEN [s |-> s, disk |-> d, err |-> "ErrClosed"]
             ELSE [s |-> [s EXCEPT !.fp.state = "closed", !.fp.pos = p1],
                   disk |-> d1, err |-> ""]

\* Size
DoSize(s, d) ==
    CASE s.fp.state = "nil" -> [n |-> 0, err |-> "panic"]
      [] s.fp.state = "closed" -> [n |-> 0, err |-> "ErrClosed"]
      [] OTHER -> [n |-> Len(d.bytes), err |-> ""]

\* (mutant) the state is listed whatever the mode
ListStateAnyMode(mode) == <<stateMAC>>

\* List(State): nothing while the store is writable
ListState(mode) == IF ModeWrite \in mode THEN <<>> ELSE <<stateMAC>>

\* List
DoList(s, res) ==
    CASE res = "State" -> [out |-> ListState(s.mode), err |-> ""]
      [] res = "Packfile" -> [out |-> <<packfileMAC>>, err |-> ""]
      [] res = "Lock" -> [out |-> <<>>, err |-> ""]
      [] OTHER -> [out |-> <<>>, err |-> "ErrUnsupported"]

\* (mutant) a copy that writes from the start of the config section
CopyFromConfig(fp, d, data) ==
    IF Len(data) = 0 THEN [fp |-> fp, disk |-> d, n |-> 0, err |-> ""]
    ELSE CASE fp.state = "nil" -> [fp |-> fp, disk |-> d, n |-> 0, err |-> "panic"]
           [] fp.state = "closed" -> [fp |-> fp, disk |-> d, n |-> 0, err |-> "ErrClosed"]
           [] fp.state = "open" /\ ~fp.writable ->
                 [fp |-> fp, disk |-> d, n |-> 0, err |-> "WriteError"]
           [] OTHER -> [fp |-> [fp EXCEPT !.pos = HeaderLength + Len(data)],
                        disk |-> File(WriteAt(d.bytes, HeaderLength, data)),
                        n |-> Len(data), err |-> ""]

\* io.Copy(s.fp, rd): nothing is written for an exhausted reader
Copy(fp, d, data) ==
    IF Len(data) = 0 THEN [fp |-> fp, disk |-> d, n |-> 0, err |-> ""]
    ELSE CASE fp.state = "nil" -> [fp |-> fp, disk |-> d, n |-> 0, err |-> "panic"]
           [] fp.state = "closed" -> [fp |-> fp, disk |-> d, n |-> 0, err |-> "ErrClosed"]
           [] fp.state = "open" /\ ~fp.writable ->
                 [fp |-> fp, disk |-> d, n |-> 0, err |-> "WriteError"]
           [] OTHER -> [fp |-> [fp EXCEPT !.pos = fp.pos + Len(data)],
                        disk |-> File(WriteAt(d.bytes, fp.pos, data)),
                        n |-> Len(data), err |-> ""]

\* (mutant) the test of the mode that only an unopened handle fails
LacksWriteUnopened(mode) == mode = {}

\* s.mode&storage.ModeWrite == 0
LacksWrite(mode) == ModeWrite \notin mode

\* Put
DoPut(s, d, res, data) ==
    LET Same(n, e) == [s |-> s, disk |-> d, n |-> n, err |-> e]
    IN  CASE res = "State" ->
               IF LacksWrite(s.mode) THEN Same(0, "ErrNotWritable")
               ELSE LET s1 == [s EXCEPT !.stateOffset = s.packfileOffset + s.packfileLength]
                        c == Copy(s.fp, d, data)
                    IN  IF c.err # ""
                        THEN [s |-> s1, disk |-> d, n |-> 0, err |-> c.err]
                        ELSE [s |-> [s1 EXCEPT !.fp = c.fp, !.stateLength = c.n],
                              disk |-> c.disk, n |-> c.n, err |-> ""]
          [] res = "Packfile" ->
               IF LacksWrite(s.mode) THEN Same(0, "ErrNotWritable")
               ELSE LET s1 == [s EXCEPT !.packfileOffset = s.configOffset + s.configLength]
                        c == Copy(s.fp, d, data)
                    IN  IF c.err # ""
                        THEN [s |-> s1, disk |-> d, n |-> 0, err |-> c.err]
                        ELSE [s |-> [s1 EXCEPT !.fp = c.fp, !.packfileLength = c.n],
                              disk |-> c.disk, n |-> c.n, err |-> ""]
          [] res = "Lock" ->
               IF LacksWrite(s.mode) THEN Same(0, "ErrNotWritable")
               ELSE Same(0, "")
          [] OTHER -> Same(-1, "ErrUnsupported")

\* io.NewSectionReader(s.fp, off, n), read to its end: the bytes it yields
\* and the error of the read
SectionRead(fp, d, off, n) ==
    IF n <= 0 THEN [out |-> <<>>, rerr |-> ""]
    ELSE CASE fp.state = "nil" -> [out |-> <<>>, rerr |-> "panic"]
           [] fp.state = "closed" -> [out |-> <<>>, rerr |-> "ErrClosed"]
           [] off < 0 -> [out |-> <<>>, rerr |-> "NegativeOffset"]
           [] OTHER -> [out |-> Slice(d.bytes, off, n), rerr |-> ""]

\* (mutant) the range taken from the start of the container
RangedViewAbsolute(s, d, rg) == SectionRead(s.fp, d, rg.Offset, rg.Length)

\* Get(Packfile) with a range: the view over the sub-range
RangedView(s, d, rg) ==
    SectionRead(s.fp, d, s.packfileOffset + rg.Offset, rg.Length)

\* Get.  view: whether a reader was returned.
DoGet(s, d, res, mac, rg) ==
    LET View(r) == [view |-> TRUE, err |-> "", out |-> r.out, rerr |-> r.rerr]
        None(e) == [view |-> FALSE, err |-> e, out |-> <<>>, rerr |-> ""]
    IN  CASE res = "State" ->
               IF mac # stateMAC THEN None("InvalidMAC")
               ELSE View(SectionRead(s.fp, d, s.stateOffset, s.stateLength))
          [] res = "Packfile" ->
               IF ~rg.has
               THEN View(SectionRead(s.fp, d, s.packfileOffset, s.packfileLength))
               ELSE View(RangedView(s, d, rg))
          [] res = "Lock" -> View([out |-> <<>>, rerr |-> ""])
          [] OTHER -> None("ErrUnsupported")

\* (mutant) Delete without the test of the mode
DoDeleteUnchecked(s) == ""

\* Delete
DoDelete(s) == IF ModeWrite \notin s.mode THEN "ErrNotWritable" ELSE ""

(***************************************************************************)
(* Containers found on disk at the start: none, and files this program did *)
(* not write (truncated, foreign or damaged ones; the last has a trailer    *)
(* whose packfile overlaps the config and whose state lies past the end).  *)
(***************************************************************************)
TrailerOf(co, cl, po, pl, so, sl) ==
    Trailer([configOffset |-> co, configLength |-> cl, packfileOffset |-> po,
             packfileLength |-> pl, stateOffset |-> so, stateLength |-> sl])

Container(magic, version, c, p, s, cl) ==
    magic \o PutUint32(version) \o c \o p \o s \o
    TrailerOf(12, cl, 12 + Len(c), Len(p), 12 + Len(c) + Len(p), Len(s))

\* "_PLAKAR_"
ForeignMagic == <<95, 80, 76, 65, 75, 65, 82, 95>>

InitDisks ==
    { NoFile,
      File(<<95, 80, 76>>),
      File(Container(ForeignMagic, Version100, <<99>>, <<80>>, <<83>>, 1)),
      File(Container(Magic, 2 * Version100, <<99>>, <<80, 81>>, <<83>>, 1)),
      File(Container(Magic, Version100, <<99>>, <<80>>, <<83>>, 40000)),
      File(Container(Magic, Version100, <<99>>, <<80>>, <<83>>, -1)),
      File(Magic \o PutUint32(Version100) \o <<99, 80, 83>> \o
           TrailerOf(12, 1, 12, 2, 40, 7)) }

(***************************************************************************)
(* The calls.  Put and Delete never read the MAC they are given, so the    *)
(* calls are modelled without it.                                          *)
(***************************************************************************)
NoCall ==
    [op |-> "", h |-> "", res |-> "", mac |-> <<>>, rg |-> NoRange, data |-> <<>>,
     err |-> "", n |-> 0, out |-> <<>>, rerr |-> "", view |-> FALSE,
     macs |-> <<>>, io |-> <<>>]

\* a panic ends the process
Running == last.err # "panic" /\ last.rerr # "panic"

Init ==
    /\ disk \in InitDisks
    /\ store \in {f \in [Handles -> {NewStore(p) : p \in Protos}] : f["h2"].proto = "ptar"}
    /\ last = NoCall
    /\ nput = 0
    /\ log = <<>>
    /\ life = [h \in Handles |-> "Unopened"]
    /\ readers = <<>>

Create(h, c) ==
    /\ Running
    /\ LET r == DoCreate(store[h], disk, c)
           l == IF r.err = ""
                THEN Append(log, [op |-> "Create", h |-> h, res |-> "Config", data |-> c])
                ELSE log
       IN  /\ store' = [store EXCEPT ![h] = r.s]
           /\ disk' = r.disk
           /\ last' = [NoCall EXCEPT !.op = "Create", !.h = h, !.data = c, !.err = r.err]
           /\ log' = l
           /\ life' = [life EXCEPT ![h] = IF r.err = "" THEN "Writing" ELSE "Failed"]
    /\ UNCHANGED <<nput, readers>>

Open(h) ==
    /\ Running
    /\ LET r == DoOpen(store[h], disk)
       IN  /\ store' = [store EXCEPT ![h] = r.s]
           /\ last' = [NoCall EXCEPT !.op = "Open", !.h = h, !.err = r.err,
                                     !.out = r.out, !.io = r.io]
           /\ life' = [life EXCEPT ![h] = IF r.err = "" THEN "Reading" ELSE "Failed"]
    /\ UNCHANGED <<disk, nput, log, readers>>

Ping(h) ==
    /\ Running
    /\ last' = [NoCall EXCEPT !.op = "Ping", !.h = h, !.err = DoPing(store[h], disk)]
    /\ UNCHANGED <<disk, store, nput, log, life, readers>>

Close(h) ==
    /\ Running
    /\ LET r == DoClose(store[h], disk)
       IN  /\ store' = [store EXCEPT ![h] = r.s]
           /\ disk' = r.disk
           /\ last' = [NoCall EXCEPT !.op = "Close", !.h = h, !.err = r.err]
           /\ log' = IF r.disk # disk
                     THEN Append(log, [op |-> "Close", h |-> h, res |-> "", data |-> <<>>])
                     ELSE log
           /\ life' = IF r.err = ""
                      THEN [life EXCEPT ![h] = "Closed"]
                      ELSE life
    /\ UNCHANGED <<nput, readers>>

Size(h) ==
    /\ Running
    /\ LET r == DoSize(store[h], disk)
       IN  last' = [NoCall EXCEPT !.op = "Size", !.h = h, !.err = r.err, !.n = r.n]
    /\ UNCHANGED <<disk, store, nput, log, life, readers>>

List(h, res) ==
    /\ Running
    /\ LET r == DoList(store[h], res)
       IN  last' = [NoCall EXCEPT !.op = "List", !.h = h, !.res = res,
                                  !.err = r.err, !.macs = r.out]
    /\ UNCHANGED <<disk, store, nput, log, life, readers>>

\* whether a write through fp reaches the file
Writable(fp) == fp.state = "open" /\ fp.writable

\* whether Put reaches the part that sets a descriptor
PutWrites(s, res) == res \in {"State", "Packfile"} /\ ModeWrite \in s.mode

Put(h, res, data) ==
    /\ Running
    /\ LET r == DoPut(store[h], disk, res, data)
       IN  /\ store' = [store EXCEPT ![h] = r.s]
           /\ disk' = r.disk
           /\ last' = [NoCall EXCEPT !.op = "Put", !.h = h, !.res = res,
                                     !.data = data, !.err = r.err, !.n = r.n]
           /\ log' = IF PutWrites(store[h], res) /\ r.err = "" /\ Writable(store[h].fp)
                     THEN Append(log, [op |-> "Put", h |-> h, res |-> res, data |-> data])
                     ELSE log
    /\ nput' = IF PutWrites(store[h], res) THEN nput + 1 ELSE nput
    /\ UNCHANGED <<life, readers>>

Get(h, res, mac, rg) ==
    /\ Running
    /\ LET r == DoGet(store[h], disk, res, mac, rg)
       IN  last' = [NoCall EXCEPT !.op = "Get", !.h = h, !.res = res, !.mac = mac,
                                  !.rg = rg, !.err = r.err, !.out = r.out,
                                  !.rerr = r.rerr, !.view = r.view]
    /\ UNCHANGED <<disk, store, nput, log, life, readers>>

Delete(h, res) ==
    /\ Running
    /\ last' = [NoCall EXCEPT !.op = "Delete", !.h = h, !.res = res,
                              !.err = DoDelete(store[h])]
    /\ UNCHANGED <<disk, store, nput, log, life, readers>>

\* the handle the calls are made on
Callers == {"h1"}

Next ==
    \/ \E h \in Callers, c \in Configs : Create(h, c)
    \/ \E h \in Callers : Open(h)
    \/ \E h \in Callers : Ping(h)
    \/ \E h \in Callers : Close(h)
    \/ \E h \in Callers : Size(h)
    \/ \E h \in Callers, res \in StorageResources : List(h, res)
    \/ \E h \in Callers, res \in StorageResources, data \in Payloads :
          /\ PutWrites(store[h], res) => nput < MaxPuts
          /\ Put(h, res, data)
    \/ \E h \in Callers, res \in StorageResources, mac \in MACs : Get(h, res, mac, NoRange)
    \/ \E h \in Callers, res \in StorageResources : Delete(h, res)

Spec == Init /\ [][Next]_vars

(***************************************************************************)
(* The write protocol followed by a read through a fresh handle: h1        *)
(* creates the container, puts the packfile, puts the state and closes;    *)
(* h2 then opens the same path and reads.                                  *)
(***************************************************************************)
Writer == "h1"
Reader == "h2"

InitRoundTrip ==
    /\ disk = NoFile
    /\ store = [h \in Handles |-> NewStore("ptar")]
    /\ last = NoCall
    /\ nput = 0
    /\ log = <<>>
    /\ life = [h \in Handles |-> "Unopened"]
    /\ readers = <<>>

\* the container is written and closed
Finalized == Len(log) = 4 /\ log[4].op = "Close"

NextRoundTrip ==
    \/ \E c \in SectionConfigs : Len(log) = 0 /\ Create(Writer, c)
    \/ \E p \in SectionPayloads : Len(log) = 1 /\ Put(Writer, "Packfile", p)
    \/ \E s \in SectionPayloads : Len(log) = 2 /\ Put(Writer, "State", s)
    \/ Len(log) = 3 /\ Close(Writer)
    \/ Finalized /\ Open(Reader)
    \/ \E res \in StorageResources, mac \in MACs, rg \in Ranges :
          Finalized /\ Get(Reader, res, mac, rg)

SpecRoundTrip == InitRoundTrip /\ [][NextRoundTrip]_vars

(***************************************************************************)
(* Properties.                                                             *)
(***************************************************************************)
\* the call just made, on a handle
Called(op) == last.op = op /\ last.h \in Handles

\* the last 48 bytes of the container
DiskTrailer == Slice(disk.bytes, Len(disk.bytes) - TrailerLength, TrailerLength)

InIo(call, step) == \E i \in 1..Len(call.io) : call.io[i] = step

\* a config Open accepts: 1..32768 bytes
ValidConfig(c) == Len(c) >= 1 /\ Len(c) <= 32768

\* C1: round trip.  After Create(c), Put(Packfile, p), Put(State, s), Close on
\* one handle, with c a valid config, Open on another handle at the same path
\* returns exactly c, Get(Packfile) with no range yields exactly p and
\* Get(State, stateMAC) yields exactly s.
C1_RoundTrip ==
    (Finalized /\ ValidConfig(log[1].data) /\ last.h = Reader) =>
        /\ last.op = "Open" => (last.err = "" /\ last.out = log[1].data)
        /\ (last.op = "Get" /\ life[Reader] = "Reading" /\ last.res = "Packfile"
                /\ ~last.rg.has) =>
              (last.err = "" /\ last.rerr = "" /\ last.view /\ last.out = log[2].data)
        /\ (last.op = "Get" /\ life[Reader] = "Reading" /\ last.res = "State"
                /\ last.mac = stateMAC) =>
              (last.err = "" /\ last.rerr = "" /\ last.view /\ last.out = log[3].data)

C1_Witness ==
    /\ Finalized /\ ValidConfig(log[1].data)
    /\ log[2].res = "Packfile" /\ Len(log[2].data) = 2
    /\ log[3].res = "State" /\ Len(log[3].data) = 1
    /\ last.op = "Get" /\ last.h = Reader /\ life[Reader] = "Reading"
    /\ last.res = "State" /\ last.mac = stateMAC /\ last.out = log[3].data

\* C2: the trailer Close writes for a created container has configOffset = 12,
\* packfileOffset = configOffset + configLength and
\* stateOffset = packfileOffset + packfileLength, whatever calls of Put were made.
C2_TrailerLayout ==
    (Called("Close") /\ last.err = "" /\ Len(log) > 0 /\ log[Len(log)].op = "Close"
        /\ log[Len(log)].h = last.h) =>
        LET tr == DiskTrailer
        IN  /\ TrailerField(tr, 0) = 12
            /\ TrailerField(tr, 2) = TrailerField(tr, 0) + TrailerField(tr, 1)
            /\ TrailerField(tr, 4) = TrailerField(tr, 2) + TrailerField(tr, 3)

\* C3: on a handle opened on a finalized container, Get(Packfile) with a range
\* (o, l), o + l <= packfileLength, yields the bytes at [o, o+l) of what
\* Get(Packfile) with no range yields.
C3_RangedIsSliceOfFull ==
    (last.op = "Get" /\ last.h = Reader /\ life[Reader] = "Reading"
        /\ last.res = "Packfile" /\ last.rg.has
        /\ last.rg.Offset + last.rg.Length <= store[Reader].packfileLength) =>
        LET full == DoGet(store[Reader], disk, "Packfile", last.mac, NoRange)
        IN  /\ last.err = "" /\ last.rerr = "" /\ last.view
            /\ full.err = "" /\ full.rerr = ""
            /\ last.out = SubSeq(full.out, last.rg.Offset + 1,
                                 last.rg.Offset + last.rg.Length)

C3_Witness ==
    /\ last.op = "Get" /\ last.h = Reader /\ life[Reader] = "Reading"
    /\ last.res = "Packfile" /\ last.rg.has
    /\ last.rg.Offset = 1 /\ last.rg.Length = 1
    /\ store[Reader].packfileLength = 2
    /\ last.out = <<81>>

C5_GetRejectsWrongAddress ==
    (Called("Get") /\ life[last.h] \in {"Reading", "Writing"}
        /\ ((last.res = "State" /\ last.mac # stateMAC)
            \/ (last.res = "Packfile" /\ last.mac # packfileMAC))) =>
        (last.err # "" /\ ~last.view)

\* C6: once a handle is closed, every later Put, Get, List, Delete, Size or
\* Close on it fails.
C6_ClosedAbsorbing ==
    [][ (last'.h \in Handles /\ life[last'.h] = "Closed"
            /\ last'.op \in {"Put", "Get", "List", "Delete", "Size", "Close"}) =>
          last'.err # "" ]_vars

\* C7: List(State) is empty on a handle opened with Create, also after a
\* Put(State), and is exactly the state sentinel on a handle opened with Open;
\* List(Packfile) is exactly the packfile sentinel on both.
C7_ListSnapshot ==
    (Called("List") /\ life[last.h] \in {"Writing", "Reading"}) =>
        /\ last.res = "State" =>
              /\ last.err = ""
              /\ last.macs = IF life[last.h] = "Writing" THEN <<>> ELSE <<stateMAC>>
        /\ last.res = "Packfile" => (last.err = "" /\ last.macs = <<packfileMAC>>)

C7_Witness ==
    /\ Called("List") /\ last.res = "State" /\ life[last.h] = "Writing"
    /\ store[last.h].stateLength > 0
    /\ \E i \in 1..Len(log) : log[i].op = "Put" /\ log[i].res = "State"
    /\ last.macs = <<>>

\* C8: Open of a container whose first 8 bytes are not the magic fails with
\* ErrInvalidMagic, having made no seek and read no trailer field: the six
\* descriptors of the handle are as they were.
C8_InvalidMagic ==
    [][ (last'.op = "Open" /\ last'.h \in Handles /\ disk.exists
            /\ Len(disk.bytes) >= 8 /\ SubSeq(disk.bytes, 1, 8) # Magic) =>
          /\ last'.err = "InvalidMagic"
          /\ last'.io = <<"magic">>
          /\ Descriptors(store'[last'.h]) = Descriptors(store[last'.h]) ]_vars

C8_Witness ==
    /\ Called("Open") /\ last.err = "InvalidMagic"
    /\ Len(disk.bytes) >= HeaderLength + TrailerLength
    /\ TrailerField(DiskTrailer, 1) = 1
    /\ Descriptors(store[last.h]) = <<0, 0, 0, 0, 0, 0>>

\* C9: Open of a container whose trailer holds a config length <= 0 or
\* > 32768 fails; no config byte is read, none is returned and the handle's
\* config is as it was.
C9_ConfigLengthRejected ==
    [][ (last'.op = "Open" /\ last'.h \in Handles /\ disk.exists
            /\ Len(disk.bytes) >= TrailerLength
            /\ (TrailerField(DiskTrailer, 1) <= 0 \/ TrailerField(DiskTrailer, 1) > 32768)) =>
          /\ last'.err # ""
          /\ last'.out = <<>>
          /\ ~InIo(last', "config")
          /\ store'[last'.h].config = store[last'.h].config ]_vars

C9_Witness ==
    /\ Called("Open") /\ last.err = "InvalidConfigLength"
    /\ InIo(last, "trailer")
    /\ TrailerField(DiskTrailer, 1) = 0
    /\ store[last.h].configLength = 0

\* C10: Open of a container with the magic and a version other than 1.0.0
\* fails with UnsupportedVersion.
C10_VersionValidated ==
    (Called("Open") /\ Len(disk.bytes) >= HeaderLength
        /\ SubSeq(disk.bytes, 1, 8) = Magic
        /\ SubSeq(disk.bytes, 9, 12) # PutUint32(Version100)) =>
        (last.err = "UnsupportedVersion" /\ last.out = <<>>)

(***************************************************************************)
(* The aborted write: h1 creates the container and puts sections but never *)
(* closes (the process dies before Close), so no trailer is written; h2    *)
(* opens the file that is left.                                            *)
(***************************************************************************)
\* at most MaxAbortedPuts calls of Put are made before the write is abandoned
MaxAbortedPuts == 2

\* 48 bytes of section data that read as a trailer: a config of 1 byte at 12
ForgedTrailer == TrailerOf(12, 1, 13, 0, 13, 0)

\* what the readers passed to Put hold in the aborted write
AbortedPayloads == Payloads \cup {ForgedTrailer}

NextAborted ==
    \/ \E c \in Configs : Len(log) = 0 /\ Create(Writer, c)
    \/ \E res \in {"Packfile", "State"}, data \in AbortedPayloads :
          /\ life[Writer] = "Writing"
          /\ nput < MaxAbortedPuts
          /\ Put(Writer, res, data)
    \/ life[Writer] = "Writing" /\ Open(Reader)

SpecAborted == InitRoundTrip /\ [][NextAborted]_vars

\* C11: Open of a container left by Create and any calls of Put, with no
\* Close (no trailer was written), fails, whatever bytes the sections hold.
C11_AbortedUnreadable ==
    (Called("Open") /\ last.h = Reader /\ life[Writer] = "Writing"
        /\ \A i \in 1..Len(log) : log[i].op # "Close") =>
        last.err # ""

\* C12: the trailer is appended at most once on a handle, only by Close on a
\* handle whose mode includes Write and that was not closed before, and it is
\* the six descriptors of the handle; Close on a read-only handle and a
\* repeated Close leave the container as it was; every other call either
\* leaves the container as it was or writes the bytes it was given (Create the
\* header and the config, Put the bytes of its reader).
C12_TrailerOnce ==
    [][ LET h == last'.h
            s == store[h]
        IN  last'.h \in Handles =>
              /\ (last'.op = "Close" /\ disk' # disk) =>
                    /\ ModeWrite \in s.mode
                    /\ life[h] # "Closed"
                    /\ disk'.bytes = disk.bytes \o Trailer(s)
                    /\ \A i \in 1..Len(log) : ~(log[i].op = "Close" /\ log[i].h = h)
              /\ (last'.op = "Close" /\ (ModeWrite \notin s.mode \/ life[h] = "Closed")) =>
                    disk' = disk
              /\ last'.op # "Close" =>
                    \/ disk' = disk
                    \/ /\ last'.op = "Create"
                       /\ disk'.bytes = Magic \o PutUint32(Version100) \o last'.data
                    \/ /\ last'.op = "Put"
                       /\ disk'.bytes = disk.bytes \o last'.data ]_vars

C12_Witness ==
    /\ Called("Close") /\ last.err = "ErrClosed" /\ life[last.h] = "Closed"
    /\ Len(log) = 3 /\ log[2].op = "Put" /\ log[3].op = "Close"
    /\ DiskTrailer = Trailer(store[last.h])
    /\ Len(disk.bytes) = HeaderLength + store[last.h].configLength
                           + Len(log[2].data) + TrailerLength

\* C13: once Create or Open has succeeded on a handle, no later call on the
\* handle changes its mode.
C13_ModeImmutable ==
    [][ \A h \in Handles :
          life[h] \in {"Writing", "Reading"} => store'[h].mode = store[h].mode ]_vars

\* C14: after a successful Put(Packfile) or Put(State) on a handle opened with
\* Create, the offset recorded for that kind is the end of the file at the
\* time of the call, and the file holds the bytes given at [offset,
\* offset + length).
C14_DescriptorsMatchLayout ==
    (Called("Put") /\ last.err = "" /\ life[last.h] = "Writing"
        /\ last.res \in {"Packfile", "State"}) =>
        LET s == store[last.h]
            off == IF last.res = "Packfile" THEN s.packfileOffset ELSE s.stateOffset
            n == IF last.res = "Packfile" THEN s.packfileLength ELSE s.stateLength
        IN  /\ off = Len(disk.bytes) - Len(last.data)
            /\ n = Len(last.data)
            /\ Slice(disk.bytes, off, n) = last.data

\* C15: on a handle whose mode lacks Write, Put(Packfile), Put(State) and
\* Put(Lock) fail with ErrNotWritable and return 0; the container's bytes and
\* the handle (its six descriptors and the cursor of its backend) are as they
\* were.
C15_PutGated ==
    [][ (last'.op = "Put" /\ last'.h \in Handles
            /\ ModeWrite \notin store[last'.h].mode
            /\ last'.res \in {"Packfile", "State", "Lock"}) =>
          /\ last'.err = "ErrNotWritable"
          /\ last'.n = 0
          /\ disk' = disk
          /\ store' = store ]_vars

C15_Witness ==
    /\ Called("Put") /\ life[last.h] = "Reading" /\ store[last.h].mode = {ModeRead}
    /\ last.res = "State" /\ Len(last.data) = 1
    /\ last.err = "ErrNotWritable"
    /\ store[last.h].stateLength = 1

\* C16: on a handle opened on a finalized container, the reader returned by
\* Get(Packfile) with a range (o, l) yields only bytes of the packfile
\* section: the bytes at [o, o + l) of the section, as far as the section goes.
C16_RangedViewBounded ==
    (last.op = "Get" /\ last.h = Reader /\ life[Reader] = "Reading"
        /\ last.res = "Packfile" /\ last.rg.has /\ last.view) =>
        LET s == store[Reader]
            section == Slice(disk.bytes, s.packfileOffset, s.packfileLength)
        IN  last.out = Slice(section, last.rg.Offset, last.rg.Length)

(***************************************************************************)
(* Readers read step by step: a handle is opened on a finalized container, *)
(* Get returns readers that are kept, and the calls of Read on them are    *)
(* interleaved in every order.                                             *)
(***************************************************************************)
\* at most MaxReaders readers are obtained from Get
MaxReaders == 2
\* a call of Read passes a buffer of 1..MaxReadLen bytes
MaxReadLen == 2

\* the finalized containers the write protocol leaves for a config of one
\* byte with a packfile of one byte and a state of one byte, and with a
\* packfile of three bytes and a state of two
ReaderDisks ==
    { File(Container(Magic, Version100, Blob(99, 1), Blob(80, 1), Blob(90, 1), 1)),
      File(Container(Magic, Version100, Blob(99, 1), Blob(80, 3), Blob(90, 2), 1)) }

\* io.NewSectionReader(s.fp, off, n) on the backend of handle h; got is what
\* the reader has yielded so far
NewSectionReader(h, off, n) ==
    [h |-> h, base |-> off, off |-> off, limit |-> off + n, got |-> <<>>, err |-> ""]

\* the section Get hands to io.NewSectionReader
ViewOf(s, res, rg) ==
    CASE res = "State" -> [off |-> s.stateOffset, n |-> s.stateLength]
      [] res = "Packfile" /\ ~rg.has -> [off |-> s.packfileOffset, n |-> s.packfileLength]
      [] res = "Packfile" /\ rg.has ->
            [off |-> s.packfileOffset + rg.Offset, n |-> rg.Length]
      [] OTHER -> [off |-> 0, n |-> 0]

\* (mutant) a read at the cursor of the backend, which it moves
ReadAtCursor(fp, d, off, n) ==
    CASE fp.state # "open" -> [data |-> <<>>, err |-> "ErrClosed", fp |-> fp]
      [] off < 0 -> [data |-> <<>>, err |-> "NegativeOffset", fp |-> fp]
      [] OTHER -> LET data == Slice(d.bytes, fp.pos, n)
                  IN  [data |-> data, err |-> IF Len(data) < n THEN "EOF" ELSE "",
                       fp |-> [fp EXCEPT !.pos = fp.pos + Len(data)]]

\* s.fp.ReadAt(buf, off) with len(buf) = n: the bytes at the absolute offset;
\* the cursor of the backend is neither used nor moved
ReadAt(fp, d, off, n) ==
    CASE fp.state # "open" -> [data |-> <<>>, err |-> "ErrClosed", fp |-> fp]
      [] off < 0 -> [data |-> <<>>, err |-> "NegativeOffset", fp |-> fp]
      [] OTHER -> LET data == Slice(d.bytes, off, n)
                  IN  [data |-> data, err |-> IF Len(data) < n THEN "EOF" ELSE "",
                       fp |-> fp]

\* Get, the reader it returns being kept to be read step by step
GetReader(h, res, mac, rg) ==
    /\ Running
    /\ LET r == DoGet(store[h], disk, res, mac, rg)
           v == ViewOf(store[h], res, rg)
       IN  /\ last' = [NoCall EXCEPT !.op = "Get", !.h = h, !.res = res, !.mac = mac,
                                     !.rg = rg, !.err = r.err, !.view = r.view]
           /\ readers' = IF r.view
                         THEN Append(readers, NewSectionReader(h, v.off, v.n))
                         ELSE readers
    /\ UNCHANGED <<disk, store, nput, log, life>>

\* (*io.SectionReader).Read(buf) with len(buf) = n on the i-th reader
Read(i, n) ==
    /\ Running
    /\ readers[i].err = ""
    /\ LET r == readers[i]
           m == Min(n, r.limit - r.off)
           ra == ReadAt(store[r.h].fp, disk, r.off, m)
       IN  IF r.off >= r.limit
           THEN /\ readers' = [readers EXCEPT ![i].err = "EOF"]
                /\ last' = [NoCall EXCEPT !.op = "Read", !.h = r.h, !.err = "EOF"]
                /\ UNCHANGED store
           ELSE /\ readers' = [readers EXCEPT ![i].off = r.off + Len(ra.data),
                                              ![i].got = r.got \o ra.data,
                                              ![i].err = ra.err]
                /\ last' = [NoCall EXCEPT !.op = "Read", !.h = r.h, !.err = ra.err]
                /\ store' = [store EXCEPT ![r.h].fp = ra.fp]
    /\ UNCHANGED <<disk, nput, log, life>>

InitReaders ==
    /\ disk \in ReaderDisks
    /\ store = [h \in Handles |-> NewStore("ptar")]
    /\ last = NoCall
    /\ nput = 0
    /\ log = <<>>
    /\ life = [h \in Handles |-> "Unopened"]
    /\ readers = <<>>

NextReaders ==
    \/ life[Reader] = "Unopened" /\ Open(Reader)
    \/ \E rg \in Ranges :
          /\ life[Reader] = "Reading"
          /\ Len(readers) < MaxReaders
          /\ GetReader(Reader, "Packfile", packfileMAC, rg)
    \/ /\ life[Reader] = "Reading"
       /\ Len(readers) < MaxReaders
       /\ GetReader(Reader, "State", stateMAC, NoRange)
    \/ \E i \in 1..Len(readers), n \in 1..MaxReadLen : Read(i, n)

SpecReaders == InitReaders /\ [][NextReaders]_vars

\* what the reader r yields when it alone is read, to its end
ReadAlone(r) == SectionRead(store[r.h].fp, disk, r.base, r.limit - r.base).out

\* C17: on a handle opened read-only, whatever the order of the calls of Read
\* on the readers obtained from Get, what each reader has yielded is the start
\* of what it yields when read alone, and all of it once the reader is at its
\* end.
C17_ReadsIndependent ==
    \A i \in 1..Len(readers) :
        LET r == readers[i]
            alone == ReadAlone(r)
        IN  /\ r.err \in {"", "EOF"}
            /\ Len(r.got) <= Len(alone)
            /\ r.got = SubSeq(alone, 1, Len(r.got))
            /\ r.err = "EOF" => r.got = alone

\* two readers over the same bytes, both in the middle of being read
C17_Witness ==
    /\ Len(readers) = 2
    /\ readers[1].base = readers[2].base
    /\ readers[1].limit = readers[1].base + 3
    /\ readers[2].limit = readers[2].base + 2
    /\ readers[1].got = <<80, 81>> /\ readers[1].err = ""
    /\ readers[2].got = <<80>> /\ readers[2].err = ""
    /\ last.op = "Read"

\* C18: when Open succeeds, the descriptors it decoded have configOffset = 12,
\* packfileOffset = configOffset + configLength, stateOffset = packfileOffset
\* + packfileLength, lengths that are not negative, and a state that ends at
\* or before the start of the trailer.
C18_OpenWellFormed ==
    (Called("Open") /\ last.err = "") =>
        LET s == store[last.h]
        IN  /\ s.configOffset = 12
            /\ s.packfileOffset = s.configOffset + s.configLength
            /\ s.stateOffset = s.packfileOffset + s.packfileLength
            /\ s.configLength >= 0 /\ s.packfileLength >= 0 /\ s.stateLength >= 0
            /\ s.stateOffset + s.stateLength <= Len(disk.bytes) - TrailerLength

\* the config given to the successful Create on handle h
CreatedConfig(h) ==
    log[CHOOSE i \in 1..Len(log) : log[i].op = "Create" /\ log[i].h = h].data

\* C19: on a handle opened with Create(c) and not yet closed, after a Put, Get,
\* List, Delete or Ping the handle has configOffset = 12 and configLength =
\* len(c) and the file holds c at [12, 12 + len(c)); Put(Config) always fails
\* and changes neither the container nor the handle.
C19_ConfigWriteOnce ==
    [][ LET h == last'.h
        IN  /\ (h \in Handles /\ life[h] = "Writing"
                  /\ last'.op \in {"Put", "Get", "List", "Delete", "Ping"}) =>
                  LET c == CreatedConfig(h)
                  IN  /\ store'[h].configOffset = 12
                      /\ store'[h].configLength = Len(c)
                      /\ Slice(disk'.bytes, 12, Len(c)) = c
            /\ (last'.op = "Put" /\ last'.res = "Config") =>
                  /\ last'.err = "ErrUnsupported"
                  /\ disk' = disk
                  /\ store' = store ]_vars

C19_Witness ==
    /\ Called("Put") /\ last.res = "Config" /\ last.err = "ErrUnsupported"
    /\ Len(last.data) = 1
    /\ life[last.h] = "Writing"
    /\ Len(log) = 2 /\ log[2].op = "Put" /\ Len(log[2].data) = 1
    /\ CreatedConfig(last.h) = <<99>>
    /\ Slice(disk.bytes, 12, 1) = <<99>>
    /\ Len(disk.bytes) = 14

\* C20: a Create that fails on a handle not opened before leaves the container
\* as it was and the handle without Write in its mode; a Delete or Put that
\* follows on the handle fails.
C20_FailedCreateUnopened ==
    [][ /\ (last'.op = "Create" /\ last'.h \in Handles /\ last'.err # ""
              /\ life[last'.h] = "Unopened") =>
              /\ disk' = disk
              /\ ModeWrite \notin store'[last'.h].mode
        /\ (last.op = "Create" /\ last.err # "" /\ last'.h = last.h
              /\ \A i \in 1..Len(log) : ~(log[i].op = "Create" /\ log[i].h = last.h)
              /\ last'.op \in {"Delete", "Put"}) =>
              last'.err # "" ]_vars

====
